---- MODULE Spec2Model ----
(***************************************************************************)
(* Model of src/server.js: the profile normalizer processProfile and the   *)
(* POST /api/process-profiles handler that calls it once per record.       *)
(*                                                                         *)
(* Conventions of the model                                                *)
(*  - A text field that the code only tests for truthiness and copies is a *)
(*    string; "" stands for an absent or empty (falsy) field.              *)
(*  - A text field the code inspects character by character (title,        *)
(*    employmentType, username) is a sequence of one-character strings.    *)
(*  - A numeric date part is a natural number; 0 stands for an absent or   *)
(*    zero (falsy) part.                                                   *)
(*  - A letter outside ASCII is written as its base letter followed by its *)
(*    mark: "e'" for e acute, "E'" for E acute, "c," for c cedilla, "a~"   *)
(*    for a grave; in a character sequence it is one element.              *)
(*  - An optional object or array carries a flag (has...) saying whether   *)
(*    the property is present.                                             *)
(*  - A Date is its timestamp, counted in ticks of 1/TicksPerDay day; the  *)
(*    process runs in UTC, so local midnight is a whole number of days.   *)
(*  - The keyword set (lines 42-73, 119-125, 187), job_titles and          *)
(*    industries_tag (lines 209-215) are outputs no modelled field reads;  *)
(*    they are left out.                                                   *)
(***************************************************************************)
EXTENDS Integers, Sequences, FiniteSets, TLC

VARIABLES
  clock,          \* the wall clock, in ticks since the epoch
  ticks,          \* how often the clock has advanced (bounded by MaxTicks)
  pc,             \* "request" | "batch" | "positions" | "done"
  body,           \* req.body: the array of items received
  startTime,      \* line 385
  profiles,       \* line 427: the items that own a urn
  i,              \* line 445: index of the profile being processed (0-based)
  outputItems,    \* line 442
  response,       \* what res.json / res.status(..).json sent
  k,              \* how many positions the forEach of line 82 has visited
  experienceArray,\* line 77
  lastCompanyId,  \* line 79
  nowLog          \* per processProfile call, the values `now` took (lines 94, 160)

vars == <<clock, ticks, pc, body, startTime, profiles, i, outputItems, response,
          k, experienceArray, lastCompanyId, nowLog>>

----------------------------------------------------------------------------
(* Bounds of the model *)

MaxPositions == 3

MaxDatedPositions == 2

MaxTicks == 1

MaxBatch == 2

MaxLanguages == 2

TicksPerDay == 2

(* Program constants *)

DaysPerMonth == 30

MinMonths == 7

UnknownYears == 99

MidYearMonth == 6

----------------------------------------------------------------------------
(* Arithmetic *)

Max(a, b) == IF a >= b THEN a ELSE b

\* Math.round(n / d) for d > 0: floor(n/d + 1/2), halves rounded towards +infinity.
MathRound(n, d) == (2 * n + d) \div (2 * d)

\* Days from 1970-01-01 to the first day of month m0 (zero-based, any integer;
\* the Date constructor carries months outside 0..11 into the year) of year y,
\* plus day - 1: what new Date(y, m0, day) denotes in UTC.
DaysFromCivil(y, m0, day) ==
  LET yy  == y + (m0 \div 12)
      m   == (m0 % 12) + 1
      y2  == IF m <= 2 THEN yy - 1 ELSE yy
      era == y2 \div 400
      yoe == y2 - era * 400
      mp  == IF m > 2 THEN m - 3 ELSE m + 9
      doy == (153 * mp + 2) \div 5
      doe == yoe * 365 + (yoe \div 4) - (yoe \div 100) + doy
  IN  era * 146097 + doe - 719468 + (day - 1)

\* The calendar year and zero-based month of a day number.
CivilFromDays(days) ==
  LET z   == days + 719468
      era == z \div 146097
      doe == z - era * 146097
      yoe == (doe - (doe \div 1460) + (doe \div 36524) - (doe \div 146096)) \div 365
      doy == doe - (365 * yoe + (yoe \div 4) - (yoe \div 100))
      mp  == (5 * doy + 2) \div 153
      m   == IF mp < 10 THEN mp + 3 ELSE mp - 9
      y   == yoe + era * 400 + (IF m <= 2 THEN 1 ELSE 0)
  IN  [year |-> y, month |-> m - 1]

\* new Date(year, month, day): the timestamp of that local midnight.
NewDate(year, month, day) ==
  [valid |-> TRUE, time |-> DaysFromCivil(year, month, day) * TicksPerDay]

NullDate == [valid |-> FALSE, time |-> 0]

MonthShort ==
  <<"Jan", "Feb", "Mar", "Apr", "May", "Jun",
    "Jul", "Aug", "Sep", "Oct", "Nov", "Dec">>

\* date.toLocaleDateString('en-US', {year: 'numeric', month: 'short'})
ToLocaleDateString(date) ==
  LET c == CivilFromDays(date.time \div TicksPerDay)
  IN  MonthShort[c.month + 1] \o " " \o ToString(c.year)

----------------------------------------------------------------------------
(* Text *)

UpperChars ==
  <<"A", "B", "C", "D", "E", "F", "G", "H", "I", "J", "K", "L", "M", "N", "O",
    "P", "Q", "R", "S", "T", "U", "V", "W", "X", "Y", "Z", "E'">>

LowerChars ==
  <<"a", "b", "c", "d", "e", "f", "g", "h", "i", "j", "k", "l", "m", "n", "o",
    "p", "q", "r", "s", "t", "u", "v", "w", "x", "y", "z", "e'">>

ToLowerChar(c) ==
  IF \E n \in 1..Len(UpperChars) : UpperChars[n] = c
  THEN LowerChars[CHOOSE n \in 1..Len(UpperChars) : UpperChars[n] = c]
  ELSE c

\* String.prototype.toLowerCase
ToLowerCase(s) == [n \in 1..Len(s) |-> ToLowerChar(s[n])]

\* String.prototype.includes
Includes(s, sub) ==
  \E n \in 1..(Len(s) - Len(sub) + 1) : SubSeq(s, n, n + Len(sub) - 1) = sub

\* Array.prototype.join over strings
RECURSIVE Join(_, _)
Join(list, sep) ==
  IF Len(list) = 0 THEN ""
  ELSE IF Len(list) = 1 THEN list[1]
  ELSE list[1] \o sep \o Join(Tail(list), sep)

----------------------------------------------------------------------------
(* processProfile: dates and job entries (lines 93-117, 336-352) *)

\* Helper function to create date from position date (lines 336-352).
createDateFromPositionDate(positionDate) ==
  IF ~positionDate.has \/ positionDate.year = 0
  THEN NullDate
  ELSE LET month == IF positionDate.month = 0
                    THEN MidYearMonth
                    ELSE positionDate.month - 1
           day   == IF positionDate.day = 0 THEN 1 ELSE positionDate.day
       IN  NewDate(positionDate.year, month, day)

\* pos.end && createDateFromPositionDate(pos.end) || now   (lines 97, 164)
EndDateOrNow(pos, now) ==
  LET e == createDateFromPositionDate(pos.end)
  IN  IF pos.end.has /\ e.valid THEN e ELSE [valid |-> TRUE, time |-> now]

\* Math.max(0, (endDate - startDate)) in ticks; jobDurationMonths is this
\* over DaysPerMonth * TicksPerDay (lines 102, 171).
DurationTicks(startDate, endDate) == Max(0, endDate.time - startDate.time)

TicksPerMonth == DaysPerMonth * TicksPerDay

\* A variant that shows the end date of every position, ongoing or not.
EndDateStrAlways(endDate, now) ==
  IF endDate.time <= now THEN ToLocaleDateString(endDate) ELSE "Present"

\* endDate < now ? endDate.toLocaleDateString(...) : 'Present'   (line 106)
EndDateStr(endDate, now) ==
  IF endDate.time < now THEN ToLocaleDateString(endDate) ELSE "Present"

\* The job entry of one position (lines 93-117).
JobEntry(pos, now) ==
  LET startDate == createDateFromPositionDate(pos.start)
      endDate   == EndDateOrNow(pos, now)
  IN  [jobTitle       |-> pos.title,
       duration       |-> IF startDate.valid
                          THEN MathRound(DurationTicks(startDate, endDate),
                                         TicksPerMonth)
                          ELSE 0,
       dateRange      |-> IF startDate.valid
                          THEN ToLocaleDateString(startDate) \o " - "
                                 \o EndDateStr(endDate, now)
                          ELSE "",
       description    |-> pos.description,
       employmentType |-> pos.employmentType]

----------------------------------------------------------------------------
(* processProfile: grouping by employer (lines 79-80, 127-148) *)

\* A variant that looks the employer up among all groups made so far.
SameCompanyAnywhere(companyId, last, experiences) ==
  \E g \in 1..Len(experiences) : experiences[g].companyId = companyId

\* companyId === lastCompanyId && currentExperienceEntry   (line 128).
\* lastCompanyId is <<>> for null and <<id>> for a string; the current entry
\* is the last element of the array, null while the array is empty.
SameCompanyAsLast(companyId, last, experiences) ==
  last = <<companyId>> /\ Len(experiences) > 0

\* The new company entry of lines 133-143.
CompanyEntry(pos, jobEntry) ==
  [company            |-> IF pos.companyName = "" THEN "Unknown Company"
                          ELSE pos.companyName,
   companyId          |-> pos.companyId,
   companyLink        |-> pos.companyURL,
   companyLogo        |-> pos.companyLogo,
   companyRange       |-> pos.companyStaffCountRange,
   companyIndustry    |-> pos.companyIndustry,
   companyDescription |-> pos.companyDescription,
   companySpecialties |-> pos.companySpecialties,
   jobs               |-> <<jobEntry>>]

\* The experience array after the forEach body ran for pos (lines 127-145).
PushJob(experiences, last, pos, jobEntry) ==
  IF SameCompanyAsLast(pos.companyId, last, experiences)
  THEN [experiences EXCEPT ![Len(experiences)].jobs = Append(@, jobEntry)]
  ELSE Append(experiences, CompanyEntry(pos, jobEntry))

----------------------------------------------------------------------------
(* processProfile: years of experience (lines 154-186, 355-363) *)

Chars_intern    == <<"i", "n", "t", "e", "r", "n">>
Chars_stagiaire == <<"s", "t", "a", "g", "i", "a", "i", "r", "e">>
Chars_volunteer == <<"v", "o", "l", "u", "n", "t", "e", "e", "r">>
Chars_benevole  == <<"b", "e'", "n", "e'", "v", "o", "l", "e">>

\* Helper function to determine if a position should be excluded (355-363).
isExcludedPosition(pos) ==
  LET employmentType == ToLowerCase(pos.employmentType)
      title          == ToLowerCase(pos.title)
  IN  \/ Includes(employmentType, Chars_intern)
      \/ Includes(title, Chars_stagiaire)
      \/ Includes(employmentType, Chars_volunteer)
      \/ Includes(title, Chars_benevole)

\* positions.filter(pos => !isExcludedPosition(pos))   (line 156)
RelevantPositions(poss) == SelectSeq(poss, LAMBDA pos : ~isExcludedPosition(pos))

\* jobDurationMonths >= 7   (line 173)
LongEnough(startDate, endDate) ==
  DurationTicks(startDate, endDate) >= MinMonths * TicksPerMonth

\* A variant that keeps the first start date that qualifies.
RECURSIVE FirstRelevantStartDate(_, _, _)
FirstRelevantStartDate(rel, now, earliest) ==
  IF rel = <<>> THEN earliest
  ELSE LET pos       == Head(rel)
           startDate == createDateFromPositionDate(pos.start)
           endDate   == EndDateOrNow(pos, now)
           next      == IF /\ startDate.valid
                           /\ DurationTicks(startDate, endDate)
                                >= MinMonths * TicksPerMonth
                           /\ ~earliest.valid
                        THEN startDate
                        ELSE earliest
       IN  FirstRelevantStartDate(Tail(rel), now, next)

\* The forEach of lines 162-178, folded over the relevant positions;
\* earliest is earliestRelevantStartDate (NullDate for null).
RECURSIVE EarliestRelevantStartDate(_, _, _)
EarliestRelevantStartDate(rel, now, earliest) ==
  IF rel = <<>> THEN earliest
  ELSE LET pos       == Head(rel)
           startDate == createDateFromPositionDate(pos.start)
           endDate   == EndDateOrNow(pos, now)
           next      == IF /\ startDate.valid
                           /\ LongEnough(startDate, endDate)
                           /\ (~earliest.valid \/ startDate.time < earliest.time)
                        THEN startDate
                        ELSE earliest
       IN  EarliestRelevantStartDate(Tail(rel), now, next)

\* Math.round((now - earliest) / (1000*60*60*24*365.25))   (lines 181-182):
\* a year is 1461/4 days.
ExperienceYears(now, earliest) ==
  MathRound(4 * (now - earliest.time), 1461 * TicksPerDay)

\* output.years_of_experience (lines 156-186).
YearsOfExperience(poss, now) ==
  LET earliest == EarliestRelevantStartDate(RelevantPositions(poss), now, NullDate)
  IN  IF earliest.valid THEN ExperienceYears(now, earliest) ELSE UnknownYears

----------------------------------------------------------------------------
(* processProfile: current position (lines 189-207) *)

\* A variant that takes only a position without an end for current.
HasNoEndObject(pos) == ~pos.end.has

\* !end || !end.year   (lines 191-192)
HasNoEnd(pos) == ~pos.end.has \/ pos.end.year = 0

\* positions.find(...): the index of the first match, 0 when there is none.
CurrentPositionIndex(poss) ==
  IF \E n \in 1..Len(poss) : HasNoEnd(poss[n])
  THEN CHOOSE n \in 1..Len(poss) :
         HasNoEnd(poss[n]) /\ \A m \in 1..(n - 1) : ~HasNoEnd(poss[m])
  ELSE 0

\* The five current_* fields (lines 195-207).
CurrentFields(poss) ==
  LET n == CurrentPositionIndex(poss)
  IN  IF n > 0
      THEN [current_industry               |-> poss[n].companyIndustry,
            current_job_title              |-> poss[n].title,
            current_company                |-> poss[n].companyName,
            current_employment_type        |-> poss[n].employmentType,
            current_company_employee_range |-> poss[n].companyStaffCountRange]
      ELSE [current_industry               |-> "",
            current_job_title              |-> <<>>,
            current_company                |-> "",
            current_employment_type        |-> <<>>,
            current_company_employee_range |-> ""]

----------------------------------------------------------------------------
(* processProfile: educations, skills, languages (lines 217-264, 274-315) *)

\* One cleaned education entry (lines 221-256); "" for a property left unset.
EducationEntry(edu) ==
  [date   |-> IF edu.startYear # 0 /\ edu.endYear # 0
              THEN ToString(edu.startYear) \o " - " \o ToString(edu.endYear)
              ELSE IF edu.startYear # 0 THEN "Depuis " \o ToString(edu.startYear)
              ELSE IF edu.endYear # 0 THEN "Jusqu'a~ " \o ToString(edu.endYear)
              ELSE "",
   degree |-> IF edu.degree # "" /\ edu.fieldOfStudy # ""
              THEN edu.degree \o ", " \o edu.fieldOfStudy
              ELSE IF edu.degree # "" THEN edu.degree
              ELSE edu.fieldOfStudy,
   school |-> edu.schoolName]

\* output.educations (lines 218-264): an absent array gives the empty array.
Educations(p) ==
  IF p.hasEducations
  THEN SelectSeq([n \in 1..Len(p.educations) |-> EducationEntry(p.educations[n])],
                 LAMBDA e : e.degree # "" \/ e.school # "")
  ELSE <<>>

\* profile.supportedLocales[0]?.country, "" for undefined; the caller has
\* checked that profile.supportedLocales is there (lines 280, 285, 294, 296).
FirstLocaleCountry(p) ==
  IF Len(p.supportedLocales) > 0 THEN p.supportedLocales[1] ELSE ""

\* Reading profile.supportedLocales[0] of a profile without supportedLocales
\* is a TypeError; both branches of lines 276-299 read it first.
LanguagesThrows(p) == ~p.hasSupportedLocales

\* A variant that looks for "Français" only.
AddsFrenchUnlessFrancais(country, names) ==
  /\ country = "FR"
  /\ ~\E n \in 1..Len(names) : names[n] \in {"Franc,ais"}

\* Whether "Français" is to be pushed (line 280).
AddsFrench(country, names) ==
  /\ country = "FR"
  /\ ~\E n \in 1..Len(names) : names[n] \in {"Franc,ais", "French"}

\* Whether "English" is to be pushed (line 285).
AddsEnglish(country, names) ==
  /\ country \in {"US", "EN"}
  /\ ~\E n \in 1..Len(names) : names[n] \in {"English"}

\* output.languages (lines 274-303), for a profile with supportedLocales.
Languages(p) ==
  LET country == FirstLocaleCountry(p)
  IN  IF p.hasLanguages /\ Len(p.languages) > 0
      THEN LET l0 == p.languages
               l1 == IF AddsFrench(country, l0) THEN Append(l0, "Franc,ais") ELSE l0
               l2 == IF AddsEnglish(country, l1) THEN Append(l1, "English") ELSE l1
           IN  Join(l2, ", ")
      ELSE IF country = "FR" THEN "Franc,ais"
      ELSE IF country \in {"US", "EN"} THEN "English"
      ELSE ""

----------------------------------------------------------------------------
(* decodeURI (lines 319-320): the Decode operation of ECMA-262 *)

HexChars ==
  <<"0", "1", "2", "3", "4", "5", "6", "7", "8", "9", "A", "B", "C", "D", "E", "F">>

HexCharsLower ==
  <<"0", "1", "2", "3", "4", "5", "6", "7", "8", "9", "a", "b", "c", "d", "e", "f">>

IsHex(c) == \E n \in 1..Len(HexChars) : HexChars[n] = c \/ HexCharsLower[n] = c

HexValue(c) ==
  (CHOOSE n \in 1..Len(HexChars) : HexChars[n] = c \/ HexCharsLower[n] = c) - 1

\* Whether s holds "%XY" with hex digits X, Y at position n.
IsEscape(s, n) ==
  n + 2 <= Len(s) /\ s[n] = "%" /\ IsHex(s[n + 1]) /\ IsHex(s[n + 2])

EscapeByte(s, n) == 16 * HexValue(s[n + 1]) + HexValue(s[n + 2])

\* The number of bytes of the UTF-8 sequence a byte leads: its leading 1 bits.
LeadingOnes(b) ==
  IF b < 128 THEN 0 ELSE IF b < 192 THEN 1 ELSE IF b < 224 THEN 2
  ELSE IF b < 240 THEN 3 ELSE IF b < 248 THEN 4 ELSE 5

Digits == <<"0", "1", "2", "3", "4", "5", "6", "7", "8", "9">>

\* The character of a code point; one the tables do not hold is named U+n.
CodePointChar(cp) ==
  IF cp \in 65..90 THEN UpperChars[cp - 64]
  ELSE IF cp \in 97..122 THEN LowerChars[cp - 96]
  ELSE IF cp \in 48..57 THEN Digits[cp - 47]
  ELSE IF cp = 32 THEN " "
  ELSE IF cp = 37 THEN "%"
  ELSE IF cp = 45 THEN "-"
  ELSE IF cp = 201 THEN "E'"
  ELSE IF cp = 233 THEN "e'"
  ELSE "U+" \o ToString(cp)

\* The code points of ; / ? : @ & = + $ , # which decodeURI leaves escaped.
ReservedCodes == {59, 47, 63, 58, 64, 38, 61, 43, 36, 44, 35}

\* The code point of the n-byte UTF-8 sequence escaped at s[at..], given its
\* continuation escapes are well formed; -1 when the sequence is not valid
\* UTF-8 (overlong, a surrogate, beyond U+10FFFF).
RECURSIVE ContinuationBits(_, _, _)
ContinuationBits(s, at, n) ==
  IF n = 0 THEN 0
  ELSE (EscapeByte(s, at) - 128) * (64 ^ (n - 1))
         + ContinuationBits(s, at + 3, n - 1)

Utf8CodePoint(s, at, n) ==
  LET lead == EscapeByte(s, at)
      base == IF n = 2 THEN 192 ELSE IF n = 3 THEN 224 ELSE 240
      low  == IF n = 2 THEN 128 ELSE IF n = 3 THEN 2048 ELSE 65536
      cp   == (lead - base) * (64 ^ (n - 1)) + ContinuationBits(s, at + 3, n - 1)
  IN  IF cp < low \/ cp \in 55296..57343 \/ cp > 1114111 THEN -1 ELSE cp

URIError == [threw |-> TRUE, value |-> <<>>]

RECURSIVE Decode(_, _, _)
Decode(s, at, out) ==
  IF at > Len(s) THEN [threw |-> FALSE, value |-> out]
  ELSE IF s[at] # "%" THEN Decode(s, at + 1, Append(out, s[at]))
  ELSE IF ~IsEscape(s, at) THEN URIError
  ELSE LET b == EscapeByte(s, at)
           n == LeadingOnes(b)
       IN  IF n = 0
           THEN Decode(s, at + 3,
                       IF b \in ReservedCodes
                       THEN out \o SubSeq(s, at, at + 2)
                       ELSE Append(out, CodePointChar(b)))
           ELSE IF n = 1 \/ n > 4 \/ at + 3 * n - 1 > Len(s) THEN URIError
           ELSE IF ~\A j \in 1..(n - 1) :
                      /\ IsEscape(s, at + 3 * j)
                      /\ EscapeByte(s, at + 3 * j) \in 128..191
                THEN URIError
           ELSE IF Utf8CodePoint(s, at, n) < 0 THEN URIError
           ELSE Decode(s, at + 3 * n,
                       Append(out, CodePointChar(Utf8CodePoint(s, at, n))))

\* decodeURI(s): the decoded text, or a URIError thrown.
decodeURI(s) == Decode(s, 1, <<>>)

LinkedinPrefix ==
  <<"h", "t", "t", "p", "s", ":", "/", "/", "l", "i", "n", "k", "e", "d", "i", "n",
    ".", "c", "o", "m", "/", "i", "n", "/">>

----------------------------------------------------------------------------
(* processProfile: what follows the forEach (lines 152-333) *)

\* const positions = profile.position || []   (line 76)
PositionsOf(p) == IF p.hasPosition THEN p.position ELSE <<>>

\* output.skills (line 304): {} when profile.skills is null or undefined.
Skills(p) ==
  IF p.hasSkills THEN [has |-> TRUE, skills |-> p.skills]
  ELSE [has |-> FALSE, skills |-> <<>>]

\* A variant that reads the first job of the last group.
CurrentEmploymentDurationOfLast(experiences) ==
  IF Len(experiences) > 0 THEN experiences[Len(experiences)].jobs[1].duration ELSE 0

\* output.experiences?.[0]?.jobs?.[0]?.duration || 0   (line 306)
CurrentEmploymentDuration(experiences) ==
  IF Len(experiences) > 0 THEN experiences[1].jobs[1].duration ELSE 0

\* The record processProfile returns (lines 152-333), when nothing throws.
Output(p, experiences, now) ==
  LET poss       == PositionsOf(p)
      cur        == CurrentFields(poss)
      educations == Educations(p)
  IN  [experiences                    |-> experiences,
       years_of_experience            |-> YearsOfExperience(poss, now),
       current_industry               |-> cur.current_industry,
       current_job_title              |-> cur.current_job_title,
       current_company                |-> cur.current_company,
       current_employment_type        |-> cur.current_employment_type,
       current_company_employee_range |-> cur.current_company_employee_range,
       educations                     |-> educations,
       about                          |-> p.summary,
       languages                      |-> Languages(p),
       skills                         |-> Skills(p),
       headline                       |-> p.headline,
       current_employment_duration    |-> CurrentEmploymentDuration(experiences),
       degrees    |-> Join([n \in 1..Len(educations) |-> educations[n].degree], ", "),
       schools    |-> Join([n \in 1..Len(educations) |-> educations[n].school], ", "),
       companies  |-> Join([n \in 1..Len(experiences) |-> experiences[n].company], ","),
       public_linkedin_identifier     |-> decodeURI(p.username).value,
       linkedin_url                   |-> decodeURI(LinkedinPrefix \o p.username).value,
       urn                            |-> p.urn,
       location                       |-> p.geoFull]

\* The error processProfile throws after the forEach, "" when it returns:
\* the TypeError of line 280 or 294, else the URIError of line 319.
Thrown(p) ==
  IF LanguagesThrows(p) THEN "TypeError"
  ELSE IF decodeURI(p.username).threw THEN "URIError"
  ELSE ""

----------------------------------------------------------------------------
(* The state machine *)

\* The profile processProfile is working on, and its positions.
profile == profiles[i + 1]

positions == PositionsOf(profile)

NoResponse == [status |-> 0]

\* new Date() on 2026-11-02, half a day after midnight.
Clock0 == DaysFromCivil(2026, 10, 2) * TicksPerDay + 1

InitWith(bodies) ==
  /\ body \in bodies
  /\ clock = Clock0
  /\ ticks = 0
  /\ pc = "request"
  /\ startTime = 0
  /\ profiles = <<>>
  /\ i = 0
  /\ outputItems = <<>>
  /\ response = NoResponse
  /\ k = 0
  /\ experienceArray = <<>>
  /\ lastCompanyId = <<>>
  /\ nowLog = <<>>

\* The wall clock advances; it does so whatever the program is doing.
Tick ==
  /\ pc # "done"
  /\ ticks < MaxTicks
  /\ clock' = clock + 1
  /\ ticks' = ticks + 1
  /\ UNCHANGED <<pc, body, startTime, profiles, i, outputItems, response,
                 k, experienceArray, lastCompanyId, nowLog>>

\* POST /api/process-profiles, up to the loop (lines 384-442), for a body that
\* is an array of profiles in the direct format: keep the items owning a urn.
Receive ==
  /\ pc = "request"
  /\ startTime' = clock
  /\ profiles' = SelectSeq(body, LAMBDA el : el.hasUrn)
  /\ outputItems' = <<>>
  /\ i' = 0
  /\ pc' = "batch"
  /\ UNCHANGED <<clock, ticks, body, response, k, experienceArray,
                 lastCompanyId, nowLog>>

\* The loop calls processProfile (lines 445-451), which sets up the forEach
\* (lines 76-80).
CallProcessProfile ==
  /\ pc = "batch"
  /\ i < Len(profiles)
  /\ k' = 0
  /\ experienceArray' = <<>>
  /\ lastCompanyId' = <<>>
  /\ nowLog' = Append(nowLog, <<>>)
  /\ pc' = "positions"
  /\ UNCHANGED <<clock, ticks, body, startTime, profiles, i, outputItems, response>>

\* One round of positions.forEach (lines 82-149): it reads the clock.
PositionStep ==
  /\ pc = "positions"
  /\ k < Len(positions)
  /\ LET pos == positions[k + 1]
         now == clock
     IN  /\ experienceArray' =
              PushJob(experienceArray, lastCompanyId, pos, JobEntry(pos, now))
         /\ lastCompanyId' = <<pos.companyId>>
         /\ nowLog' = [nowLog EXCEPT ![Len(nowLog)] = Append(@, now)]
  /\ k' = k + 1
  /\ UNCHANGED <<clock, ticks, pc, body, startTime, profiles, i, outputItems,
                 response>>

\* The rest of processProfile (lines 152-333), which reads the clock again
\* (line 160), and the handler around it: the record is pushed (line 454), or
\* what was thrown reaches the handler's catch (lines 489-496).
FinishProfile ==
  /\ pc = "positions"
  /\ k = Len(positions)
  /\ LET now == clock
     IN  /\ nowLog' = [nowLog EXCEPT ![Len(nowLog)] = Append(@, now)]
         /\ IF Thrown(profile) # ""
            THEN /\ response' = [status  |-> 500,
                                 error   |-> "Processing failed",
                                 message |-> Thrown(profile)]
                 /\ pc' = "done"
                 /\ UNCHANGED <<i, outputItems>>
            ELSE /\ outputItems' =
                      Append(outputItems, Output(profile, experienceArray, now))
                 /\ i' = i + 1
                 /\ pc' = "batch"
                 /\ UNCHANGED response
  /\ UNCHANGED <<clock, ticks, body, startTime, profiles, k, experienceArray,
                 lastCompanyId>>

\* The loop is over: the response (lines 462-480).
Respond ==
  /\ pc = "batch"
  /\ i = Len(profiles)
  /\ response' = [status   |-> 200,
                  items    |-> outputItems,
                  metadata |-> [processed        |-> Len(outputItems),
                                filtered         |-> Len(profiles),
                                total            |-> Len(body),
                                processingTimeMs |-> clock - startTime]]
  /\ pc' = "done"
  /\ UNCHANGED <<clock, ticks, body, startTime, profiles, i, outputItems,
                 k, experienceArray, lastCompanyId, nowLog>>

Next ==
  \/ Tick
  \/ Receive
  \/ CallProcessProfile
  \/ PositionStep
  \/ FinishProfile
  \/ Respond

----------------------------------------------------------------------------
(* The inputs the specifications draw from *)

Chars_joe      == <<"j", "o", "e">>
Chars_Eng      == <<"E", "n", "g">>
Chars_Lead     == <<"L", "e", "a", "d">>

NoDatePart == [has |-> FALSE, year |-> 0, month |-> 0, day |-> 0]

DatePart(year, month, day) ==
  [has |-> TRUE, year |-> year, month |-> month, day |-> day]

BasePosition ==
  [title                  |-> <<>>,
   description            |-> "",
   employmentType         |-> <<>>,
   start                  |-> NoDatePart,
   end                    |-> NoDatePart,
   companyName            |-> "",
   companyId              |-> "",
   companyURL             |-> "",
   companyLogo            |-> "",
   companyStaffCountRange |-> "",
   companyIndustry        |-> "",
   companyDescription     |-> "",
   companySpecialties     |-> ""]

BaseProfile ==
  [hasUrn              |-> TRUE,
   urn                 |-> "urn:1",
   username            |-> Chars_joe,
   summary             |-> "",
   headline            |-> "",
   geoFull             |-> "",
   hasSkills           |-> FALSE,
   skills              |-> <<>>,
   hasLanguages        |-> FALSE,
   languages           |-> <<>>,
   hasSupportedLocales |-> TRUE,
   supportedLocales    |-> <<>>,
   hasEducations       |-> FALSE,
   educations          |-> <<>>,
   hasPosition         |-> FALSE,
   position            |-> <<>>]

\* The sequences over S of length at most n.
Lists(S, n) == UNION {[1..m -> S] : m \in 0..n}

WithPositions(l) == [BaseProfile EXCEPT !.hasPosition = TRUE, !.position = l]

\* Requests of one profile whose positions vary in employer and title.
GroupingPositions ==
  {[BasePosition EXCEPT !.companyId = c, !.companyName = c, !.title = t,
                        !.start = DatePart(2020, 0, 0)] :
     c \in {"", "A", "B"}, t \in {Chars_Eng, Chars_Lead}}

GroupingBodies ==
  {<<BaseProfile>>}
    \cup {<<WithPositions(l)>> : l \in Lists(GroupingPositions, MaxPositions)}

SpecGrouping == InitWith(GroupingBodies) /\ [][Next]_vars

\* Requests of one profile whose positions vary in their dates: no start, a
\* year-only start long ago, a start 209 days before the day of Clock0, a
\* start after it; no end, an end without a year, ends before and after
\* Clock0, an end before the start; and an internship.
Chars_Internship == <<"I", "n", "t", "e", "r", "n", "s", "h", "i", "p">>

Dated(start, end) == [BasePosition EXCEPT !.start = start, !.end = end]

DatedPositions ==
  {Dated(NoDatePart, NoDatePart),
   Dated(NoDatePart, DatePart(2016, 4, 0)),
   Dated(DatePart(2015, 0, 0), NoDatePart),
   Dated(DatePart(2015, 0, 0), DatePart(0, 0, 0)),
   Dated(DatePart(2015, 0, 0), DatePart(2015, 12, 0)),
   Dated(DatePart(2015, 0, 0), DatePart(2016, 4, 0)),
   Dated(DatePart(2015, 0, 0), DatePart(2029, 6, 1)),
   Dated(DatePart(2026, 4, 7), NoDatePart),
   Dated(DatePart(2028, 1, 15), NoDatePart),
   Dated(DatePart(2028, 1, 15), DatePart(2029, 6, 1)),
   Dated(DatePart(2028, 1, 15), DatePart(2016, 4, 0)),
   [Dated(DatePart(2010, 3, 0), NoDatePart)
      EXCEPT !.employmentType = Chars_Internship]}

DatedBodies ==
  {<<BaseProfile>>}
    \cup {<<WithPositions(l)>> : l \in Lists(DatedPositions, MaxDatedPositions)}

SpecDated == InitWith(DatedBodies) /\ [][Next]_vars

\* Requests of one profile whose positions vary in title and employment
\* type: each of the four words in either field, in some letter case, and
\* positions with none of them. The positions bearing a word started in 2010,
\* the others in 2015; all are ongoing.
Chars_Intern_T    == <<"I", "n", "t", "e", "r", "n">>
Chars_Volunteer_T == <<"V", "o", "l", "u", "n", "t", "e", "e", "r">>
Chars_VOLUNTEER   == <<"V", "O", "L", "U", "N", "T", "E", "E", "R">>
Chars_Stagiaire_T == <<"S", "t", "a", "g", "i", "a", "i", "r", "e">>
Chars_BENEVOLE    == <<"B", "E'", "N", "E'", "V", "O", "L", "E">>
Chars_Engineer    == <<"E", "n", "g", "i", "n", "e", "e", "r">>
Chars_FullTime    == <<"F", "u", "l", "l", "-", "t", "i", "m", "e">>

Typed(title, employmentType, year) ==
  [BasePosition EXCEPT !.title = title, !.employmentType = employmentType,
                       !.start = DatePart(year, 0, 0)]

TypedPositions ==
  {Typed(<<>>, <<>>, 2015),
   Typed(Chars_Engineer, Chars_FullTime, 2015),
   Typed(<<>>, Chars_Internship, 2010),
   Typed(<<>>, Chars_VOLUNTEER, 2010),
   Typed(<<>>, Chars_Stagiaire_T, 2010),
   Typed(<<>>, Chars_benevole, 2010),
   Typed(Chars_Intern_T, <<>>, 2010),
   Typed(Chars_Volunteer_T, <<>>, 2010),
   Typed(Chars_Stagiaire_T, <<>>, 2010),
   Typed(Chars_BENEVOLE, <<>>, 2010)}

TypedBodies ==
  {<<WithPositions(l)>> : l \in Lists(TypedPositions, MaxDatedPositions)}

SpecTyped == InitWith(TypedBodies) /\ [][Next]_vars

\* Requests of one profile whose positions vary in their end (none, one
\* without a year, one with a year) and in what the current_* fields copy.
EndedPositions ==
  {[BasePosition EXCEPT !.end = e, !.start = DatePart(2019, 0, 0),
                        !.title = Chars_Eng, !.employmentType = Chars_FullTime,
                        !.companyName = "A", !.companyId = "A",
                        !.companyIndustry = "Tech",
                        !.companyStaffCountRange = "11-50"] :
     e \in {NoDatePart, DatePart(0, 0, 0), DatePart(2020, 0, 0)}}
    \cup
  {[BasePosition EXCEPT !.end = e, !.start = DatePart(2018, 0, 0),
                        !.title = Chars_Lead] :
     e \in {NoDatePart, DatePart(0, 0, 0), DatePart(2020, 0, 0)}}

EndedBodies ==
  {<<WithPositions(l)>> : l \in Lists(EndedPositions, MaxPositions)}

SpecEnded == InitWith(EndedBodies) /\ [][Next]_vars

\* Requests of one profile whose languages and supportedLocales vary.
LanguageNames == {"Franc,ais", "French", "English", "Deutsch"}

LocaleLists ==
  {<<>>, <<"FR">>, <<"US">>, <<"EN">>, <<"DE">>, <<"">>, <<"DE", "FR">>}

LanguageBase == WithPositions(<<Dated(DatePart(2015, 0, 0), NoDatePart)>>)

LanguageProfiles ==
  {[LanguageBase EXCEPT !.supportedLocales = sl,
                        !.hasLanguages = TRUE, !.languages = l] :
     sl \in LocaleLists, l \in Lists(LanguageNames, MaxLanguages)}
    \cup
  {[LanguageBase EXCEPT !.supportedLocales = sl] : sl \in LocaleLists}
    \cup
  {[LanguageBase EXCEPT !.hasSupportedLocales = FALSE]}

LanguageBodies == {<<p>> : p \in LanguageProfiles}

SpecLanguages == InitWith(LanguageBodies) /\ [][Next]_vars

\* Requests of one profile each of whose optional fields is there or not.
Chars_100pct == <<"1", "0", "0", "%">>
Chars_jo41n  == <<"j", "o", "%", "4", "1", "n">>
Chars_pctzz  == <<"%", "z", "z">>

OneEducation ==
  [startYear |-> 2008, endYear |-> 2010, degree |-> "MSc", fieldOfStudy |-> "CS",
   schoolName |-> "X"]

OptionalProfiles ==
  {[BaseProfile EXCEPT
      !.username            = u,
      !.hasSupportedLocales = hl,
      !.supportedLocales    = IF hl THEN <<"FR">> ELSE <<>>,
      !.hasLanguages        = hg,
      !.languages           = IF hg THEN <<"English">> ELSE <<>>,
      !.hasSkills           = hs,
      !.skills              = IF hs THEN <<"TLA+">> ELSE <<>>,
      !.hasEducations       = he,
      !.educations          = IF he THEN <<OneEducation>> ELSE <<>>,
      !.hasPosition         = hp,
      !.position            = IF hp THEN <<Dated(DatePart(2015, 0, 0), NoDatePart)>>
                              ELSE <<>>,
      !.summary             = sm,
      !.headline            = hd,
      !.geoFull             = gf] :
     u \in {Chars_joe, Chars_100pct},
     hl \in BOOLEAN, hg \in BOOLEAN, hs \in BOOLEAN, he \in BOOLEAN,
     hp \in BOOLEAN, sm \in {"", "About me"}, hd \in {"", "Engineer"},
     gf \in {"", "Paris, France"}}

OptionalBodies == {<<p>> : p \in OptionalProfiles}

SpecOptional == InitWith(OptionalBodies) /\ [][Next]_vars

\* Requests of up to MaxBatch records: two whose username decodes, two whose
\* username does not, one without a urn.
BatchProfiles ==
  {[WithPositions(<<Dated(DatePart(2015, 0, 0), NoDatePart)>>)
      EXCEPT !.urn = "urn:a"],
   [BaseProfile EXCEPT !.urn = "urn:b", !.username = Chars_jo41n],
   [BaseProfile EXCEPT !.urn = "urn:c", !.username = Chars_100pct],
   [BaseProfile EXCEPT !.urn = "urn:d", !.username = Chars_pctzz],
   [BaseProfile EXCEPT !.urn = "", !.hasUrn = FALSE]}

BatchBodies == Lists(BatchProfiles, MaxBatch)

SpecBatch == InitWith(BatchBodies) /\ [][Next]_vars

\* Requests of one profile whose first position may have ended while a later
\* one is ongoing: the positions of EndedPositions and two without a start.
TenurePositions ==
  EndedPositions
    \cup {[BasePosition EXCEPT !.title = Chars_Eng, !.companyName = "A",
                               !.companyId = "A", !.end = e] :
            e \in {NoDatePart, DatePart(2020, 0, 0)}}

TenureBodies ==
  {<<BaseProfile>>}
    \cup {<<WithPositions(l)>> : l \in Lists(TenurePositions, MaxDatedPositions)}

SpecTenure == InitWith(TenureBodies) /\ [][Next]_vars

\* Every request above.
Init ==
  InitWith(GroupingBodies \cup DatedBodies \cup TypedBodies \cup EndedBodies
             \cup LanguageBodies \cup OptionalBodies \cup BatchBodies
             \cup TenureBodies)

Spec == Init /\ [][Next]_vars

----------------------------------------------------------------------------
(* What the claims speak of *)

\* The profile the j-th output record was made from: a throw ends the batch,
\* so the outputs are those of the first profiles, in order.
InputOf(j) == profiles[j]

\* The values of `now` of the call that made the j-th output: one per
\* position (line 94), then the one of line 160.
NowOfPosition(j, n) == nowLog[j][n]

NowOfSeniority(j) == nowLog[j][Len(nowLog[j])]

\* All jobs of the groups, in order.
RECURSIVE AllJobs(_)
AllJobs(experiences) ==
  IF experiences = <<>> THEN <<>>
  ELSE Head(experiences).jobs \o AllJobs(Tail(experiences))

\* The position the first job of group g was made from.
GroupStart(experiences, g) == Len(AllJobs(SubSeq(experiences, 1, g - 1))) + 1

----------------------------------------------------------------------------
(* C1: the experience groups are exactly the maximal runs of consecutive   *)
(* positions with equal companyId: the jobs of all groups, in order, are   *)
(* the job entries of the positions in position order, and a group starts  *)
(* at a position iff it is the first or its companyId differs from that of *)
(* the position before it.                                                 *)
C1_GroupsAreMaximalRuns ==
  \A j \in 1..Len(outputItems) :
    LET poss == PositionsOf(InputOf(j))
        ex   == outputItems[j].experiences
        jobs == AllJobs(ex)
    IN  /\ Len(jobs) = Len(poss)
        /\ \A n \in 1..Len(poss) : jobs[n] = JobEntry(poss[n], NowOfPosition(j, n))
        /\ \A g \in 1..Len(ex) : Len(ex[g].jobs) > 0
        /\ {GroupStart(ex, g) : g \in 1..Len(ex)}
             = {n \in 1..Len(poss) :
                  n = 1 \/ poss[n].companyId # poss[n - 1].companyId}
        /\ \A g \in 1..Len(ex) :
             ex[g].companyId = poss[GroupStart(ex, g)].companyId

\* An employer re-appears after another one, and two consecutive positions
\* share an employer.
C1_Witness ==
  \E j \in 1..Len(outputItems) :
    LET poss == PositionsOf(InputOf(j))
        ex   == outputItems[j].experiences
    IN  /\ Len(poss) = 3
        /\ \/ /\ poss[1].companyId = poss[3].companyId
              /\ poss[1].companyId # poss[2].companyId
              /\ Len(ex) = 3
           \/ /\ poss[1].companyId = poss[2].companyId
              /\ poss[2].companyId # poss[3].companyId
              /\ Len(ex) = 2 /\ Len(ex[1].jobs) = 2

----------------------------------------------------------------------------
(* C2: years_of_experience is a non-negative integer or the sentinel 99,   *)
(* also when positions start or end later than the current time.           *)
C2_YearsNeverNegative ==
  \A j \in 1..Len(outputItems) : outputItems[j].years_of_experience >= 0

----------------------------------------------------------------------------
(* C3: a position is left out of the years-of-experience calculation iff   *)
(* its employmentType or its title, compared case-insensitively, contains  *)
(* "intern", "stagiaire", "volunteer" or "bénévole": each of the four      *)
(* words is recognized in either field.                                    *)

C3_LeftOut(pos) ==
  \E w \in {Chars_intern, Chars_stagiaire, Chars_volunteer, Chars_benevole} :
    \/ Includes(ToLowerCase(pos.employmentType), w)
    \/ Includes(ToLowerCase(pos.title), w)

\* The start times of the positions that count when exactly the positions
\* of C3_LeftOut are left out.
C3_Starts(poss, now) ==
  {createDateFromPositionDate(poss[n].start).time :
     n \in {m \in 1..Len(poss) :
              /\ ~C3_LeftOut(poss[m])
              /\ createDateFromPositionDate(poss[m].start).valid
              /\ LongEnough(createDateFromPositionDate(poss[m].start),
                            EndDateOrNow(poss[m], now))}}

C3_FilterRecognizesEveryWordInBothFields ==
  \A j \in 1..Len(outputItems) :
    LET now    == NowOfSeniority(j)
        starts == C3_Starts(PositionsOf(InputOf(j)), now)
    IN  outputItems[j].years_of_experience =
          IF starts = {} THEN UnknownYears
          ELSE ExperienceYears(now,
                 [valid |-> TRUE,
                  time  |-> CHOOSE t \in starts : \A u \in starts : t <= u])

----------------------------------------------------------------------------
(* C4: among the non-excluded positions with a resolvable start date and a *)
(* duration (end-or-now minus start, floored at 0) of at least 7 months of *)
(* 30 days, the earliest start date E gives years_of_experience =          *)
(* round((now - E) / 365.25 days); with no such position it is 99.         *)

\* The start times of the positions that count.
CountingStarts(poss, now) ==
  {createDateFromPositionDate(poss[n].start).time :
     n \in {m \in 1..Len(poss) :
              /\ ~isExcludedPosition(poss[m])
              /\ createDateFromPositionDate(poss[m].start).valid
              /\ LET s == createDateFromPositionDate(poss[m].start).time
                     e == EndDateOrNow(poss[m], now).time
                 IN  Max(0, e - s) >= 7 * 30 * TicksPerDay}}

C4_YearsFromEarliestStart ==
  \A j \in 1..Len(outputItems) :
    LET now    == NowOfSeniority(j)
        starts == CountingStarts(PositionsOf(InputOf(j)), now)
        years  == outputItems[j].years_of_experience
    IN  IF starts = {}
        THEN years = 99
        ELSE LET E == CHOOSE t \in starts : \A u \in starts : t <= u
             IN  \* years is the integer nearest to (now - E) / 365.25 days
                 /\ 2 * 4 * (now - E) >= (2 * years - 1) * 1461 * TicksPerDay
                 /\ 2 * 4 * (now - E) <  (2 * years + 1) * 1461 * TicksPerDay

\* Two positions count and the earlier start is that of the second one.
C4_Witness ==
  /\ Len(outputItems) = 1
  /\ LET poss   == PositionsOf(InputOf(1))
         now    == NowOfSeniority(1)
     IN  /\ Len(poss) = 2
         /\ Cardinality(CountingStarts(poss, now)) = 2
         /\ createDateFromPositionDate(poss[2].start).time
              < createDateFromPositionDate(poss[1].start).time
         /\ outputItems[1].years_of_experience = 11

----------------------------------------------------------------------------
(* C5: within one call of processProfile the current time is captured once *)
(* and reused: every computation of the call uses the same value of now.   *)
C5_NowCapturedOnce ==
  \A j \in 1..Len(nowLog) :
    \A n, m \in 1..Len(nowLog[j]) : nowLog[j][n] = nowLog[j][m]

----------------------------------------------------------------------------
(* C6: normalization never raises for a missing optional field: a profile  *)
(* whose username is validly percent-encoded is normalized to an output    *)
(* record whichever of supportedLocales, languages, skills, educations,    *)
(* positions, summary, headline and geo are absent.                        *)
C6_NeverRaisesForMissingField ==
  response.status = 500 => decodeURI(profile.username).threw

----------------------------------------------------------------------------
(* C7: a username with invalid percent-encoding fails that record only:    *)
(* the other valid records of the batch are still normalized and returned. *)
C7_OtherRecordsStillReturned ==
  pc = "done" =>
    \A n \in 1..Len(profiles) :
      ~decodeURI(profiles[n].username).threw =>
        /\ response.status = 200
        /\ \E m \in 1..Len(response.items) :
             response.items[m].urn = profiles[n].urn

----------------------------------------------------------------------------
(* C8: a position whose start resolves has the dateRange                   *)
(* "<start month-year> - <end>"; one whose start does not resolve has the  *)
(* dateRange "" and the duration 0.                                        *)

\* The month and year of the date reconstructed from a partial date with a
\* year: its month, July when it has none.
MonthYearOf(part) ==
  MonthShort[IF part.month = 0 THEN 7 ELSE part.month] \o " " \o ToString(part.year)

HasEndDate(pos) == pos.end.has /\ pos.end.year # 0

\* C8 as made: <end> is the month-year of the end date whenever the
\* position has one, "Present" iff it has none.
C8_PresentIffNoEndDate ==
  \A j \in 1..Len(outputItems) :
    LET poss == PositionsOf(InputOf(j))
        jobs == AllJobs(outputItems[j].experiences)
    IN  \A n \in 1..Len(poss) :
          IF poss[n].start.has /\ poss[n].start.year # 0
          THEN jobs[n].dateRange =
                 MonthYearOf(poss[n].start) \o " - "
                   \o (IF HasEndDate(poss[n]) THEN MonthYearOf(poss[n].end)
                       ELSE "Present")
          ELSE jobs[n].dateRange = "" /\ jobs[n].duration = 0

\* C8 as amended: <end> is the month-year of the end date when the position
\* has an end date earlier than the time now read for that position, and
\* "Present" otherwise.
C8_PresentIffNoEarlierEndDate ==
  \A j \in 1..Len(outputItems) :
    LET poss == PositionsOf(InputOf(j))
        jobs == AllJobs(outputItems[j].experiences)
    IN  \A n \in 1..Len(poss) :
          IF poss[n].start.has /\ poss[n].start.year # 0
          THEN jobs[n].dateRange =
                 MonthYearOf(poss[n].start) \o " - "
                   \o (IF /\ HasEndDate(poss[n])
                          /\ DaysFromCivil(poss[n].end.year,
                                           IF poss[n].end.month = 0 THEN 6
                                           ELSE poss[n].end.month - 1,
                                           IF poss[n].end.day = 0 THEN 1
                                           ELSE poss[n].end.day) * TicksPerDay
                               < NowOfPosition(j, n)
                       THEN MonthYearOf(poss[n].end)
                       ELSE "Present")
          ELSE jobs[n].dateRange = "" /\ jobs[n].duration = 0

\* A position with an end date after the current time, shown as ongoing,
\* beside one with an end date before it.
C8_Witness ==
  /\ Len(outputItems) = 1
  /\ LET poss == PositionsOf(InputOf(1))
         jobs == AllJobs(outputItems[1].experiences)
     IN  /\ Len(poss) = 2
         /\ poss[1].end.year = 2029 /\ jobs[1].dateRange = "Jul 2015 - Present"
         /\ jobs[2].dateRange = "Jul 2015 - Apr 2016"

----------------------------------------------------------------------------
(* C9: the current_* fields are those of the first position in list order  *)
(* whose end is absent or has no year, whatever the positions around it;   *)
(* with no such position they are all empty.                               *)
C9_CurrentIsFirstWithoutEnd ==
  \A j \in 1..Len(outputItems) :
    LET poss  == PositionsOf(InputOf(j))
        out   == outputItems[j]
        open  == {n \in 1..Len(poss) : ~poss[n].end.has \/ poss[n].end.year = 0}
    IN  IF open = {}
        THEN /\ out.current_industry = ""
             /\ out.current_job_title = <<>>
             /\ out.current_company = ""
             /\ out.current_employment_type = <<>>
             /\ out.current_company_employee_range = ""
        ELSE LET n == CHOOSE m \in open : \A o \in open : m <= o
             IN  /\ out.current_industry = poss[n].companyIndustry
                 /\ out.current_job_title = poss[n].title
                 /\ out.current_company = poss[n].companyName
                 /\ out.current_employment_type = poss[n].employmentType
                 /\ out.current_company_employee_range
                      = poss[n].companyStaffCountRange

\* The current position is the second of three: the first has an end date,
\* the second an end without a year, the third none.
C9_Witness ==
  /\ Len(outputItems) = 1
  /\ LET poss == PositionsOf(InputOf(1))
     IN  /\ Len(poss) = 3
         /\ poss[1].end.year = 2020 /\ poss[1].title = Chars_Lead
         /\ poss[2].end.has /\ poss[2].end.year = 0 /\ poss[2].title = Chars_Eng
         /\ ~poss[3].end.has /\ poss[3].title = Chars_Lead
         /\ outputItems[1].current_job_title = Chars_Eng
         /\ outputItems[1].current_company = "A"

----------------------------------------------------------------------------
(* C10: languages is the comma-joined list of the explicit language names, *)
(* with "Français" appended when the first supported locale's country is   *)
(* "FR" and neither "Français" nor "French" is listed, and "English"       *)
(* appended when it is "US" or "EN" and "English" is not listed; with no   *)
(* explicit languages it is "Français", "English" or "".                   *)
C10_LanguagesFromNamesAndLocale ==
  \A j \in 1..Len(outputItems) :
    LET p       == InputOf(j)
        names   == IF p.hasLanguages THEN p.languages ELSE <<>>
        listed  == {names[n] : n \in 1..Len(names)}
        country == IF p.supportedLocales = <<>> THEN "" ELSE Head(p.supportedLocales)
        got     == outputItems[j].languages
    IN  IF names = <<>>
        THEN got = (CASE country = "FR" -> "Franc,ais"
                      [] country \in {"US", "EN"} -> "English"
                      [] OTHER -> "")
        ELSE got = Join(names
                          \o (IF country = "FR" /\ listed \cap {"Franc,ais", "French"} = {}
                              THEN <<"Franc,ais">> ELSE <<>>)
                          \o (IF country \in {"US", "EN"} /\ "English" \notin listed
                              THEN <<"English">> ELSE <<>>),
                        ", ")

\* "French" is listed and the locale is FR: nothing is appended.
C10_Witness ==
  /\ Len(outputItems) = 1
  /\ InputOf(1).languages = <<"Deutsch", "French">>
  /\ InputOf(1).supportedLocales = <<"FR">>
  /\ outputItems[1].languages = "Deutsch, French"

----------------------------------------------------------------------------
(* C11: current_employment_duration is the rounded duration in months of   *)
(* the first position of the list (0 when there are no positions or its    *)
(* start does not resolve), whichever position the current_* fields were   *)
(* taken from.                                                             *)
C11_DurationIsThatOfFirstPosition ==
  \A j \in 1..Len(outputItems) :
    LET poss == PositionsOf(InputOf(j))
        d    == outputItems[j].current_employment_duration
    IN  IF poss = <<>> \/ ~poss[1].start.has \/ poss[1].start.year = 0
        THEN d = 0
        ELSE LET s == createDateFromPositionDate(poss[1].start).time
                 e == EndDateOrNow(poss[1], NowOfPosition(j, 1)).time
                 t == IF e > s THEN e - s ELSE 0
             IN  \* d is the integer nearest to t / 30 days
                 /\ 2 * t >= (2 * d - 1) * 30 * TicksPerDay
                 /\ 2 * t <  (2 * d + 1) * 30 * TicksPerDay

\* The first position ended in 2020 and the second is the current one: the
\* duration is that of the first, the title and company those of the second.
C11_Witness ==
  /\ Len(outputItems) = 1
  /\ LET poss == PositionsOf(InputOf(1))
         jobs == AllJobs(outputItems[1].experiences)
     IN  /\ Len(poss) = 2
         /\ poss[1].end.year = 2020 /\ poss[1].title = Chars_Lead
         /\ ~poss[2].end.has /\ poss[2].title = Chars_Eng
         /\ outputItems[1].current_job_title = Chars_Eng
         /\ outputItems[1].current_company = "A"
         /\ outputItems[1].current_employment_duration = 24
         /\ jobs[2].duration # 24

====
